---- MODULE Spec2Model ----
(***************************************************************************)
(* A model of the B+ tree index of wanderingj/db:                          *)
(*   src/src/index/b_plus_tree.cpp              (BPlusTree)                *)
(*   src/src/page/b_plus_tree_leaf_page.cpp     (BPlusTreeLeafPage)        *)
(*   src/src/page/b_plus_tree_internal_page.cpp (BPlusTreeInternalPage)    *)
(*                                                                         *)
(* KeyType is instantiated as an integer and the comparator returns the    *)
(* sign of (a - b), as in the specification's scenarios.  A page is a      *)
(* record of the node header fields and the slot array; a frame that was   *)
(* never initialised holds an indeterminate byte image, modelled by a      *)
(* choice made in Init among the images of RawBytes.  A dereference of a   *)
(* null page, an out-of-bounds slot access and runaway recursion end the   *)
(* process (crashed).                                                      *)
(***************************************************************************)
EXTENDS Integers, Sequences, FiniteSets, TLC

\* ------------------------------------------------------------------ bounds
MaxKey == 4
MaxVal == 1
MaxPages == 4
LeafMaxSize == 4
InternalMaxSize == 4

\* ------------------------------------------------------- program constants
INVALID_PAGE_ID == -1
HEADER_PAGE_ID == 0
LEAF_PAGE == 1
INTERNAL_PAGE == 2

Keys == 1..MaxKey
\* The record ids a key may be inserted with: the key itself (RID rid(key) of
\* InsertFromFile) and, with MaxVal > 1, further ids that belong to no other key.
ValsOf(key) == {key + MaxKey * g : g \in 0..(MaxVal - 1)}
Vals == UNION {ValsOf(key) : key \in Keys}
\* Slots of the array that overlays a page frame.
Cap == (IF LeafMaxSize > InternalMaxSize THEN LeafMaxSize ELSE InternalMaxSize) + 1
\* Byte fills of a frame nobody initialised: 0x00.. reads 0, 0xFF.. reads -1.
RawBytes == {0, -1}
\* What FetchPage(INVALID_PAGE_ID) hands back: nullptr, or a frame whose bytes
\* are all 0x00, all 0xFF, or a stale image that reads as an empty internal page.
WildImages == {"null", "zero", "ones", "stale"}
PageIds == INVALID_PAGE_ID..MaxPages
\* Frames the pool has left for this index when the tree is constructed: none,
\* one (a root leaf but no sibling), or enough for MaxPages pages.
PoolSizes == {0, 1, MaxPages}

VARIABLES
    pages,          \* page id -> node view of the frame holding that page
    root_page_id_,  \* BPlusTree::root_page_id_
    next_page_id,   \* the buffer pool's next fresh page id (NewPage)
    wild,           \* the image behind FetchPage(INVALID_PAGE_ID)
    pool_size,      \* the frames the buffer pool can hand out to this index
    thr,            \* positions and locals of two threads working on one leaf
    header,         \* root ids recorded in the header page under index_name_
    crashed,        \* the process ended abnormally inside an operation
    last,           \* the last call: operation, arguments, return value, result
    run,            \* history: the shape of the calls so far: "distinct" (Inserts of
                    \* pairwise distinct keys only), "inserts" (Inserts only, some key
                    \* twice), "removing" (a distinct run, then Removes only), "other"
    runMap,         \* history: while run is "distinct" or "removing", the map those
                    \* calls describe (key -> value, 0: absent); all 0 otherwise
    allTrue         \* history: every Insert so far returned true

vars == <<pages, root_page_id_, next_page_id, wild, pool_size, thr, header, crashed, last,
          run, runMap, allTrue>>

\* ------------------------------------------------------------- arithmetic
\* C++ integer division by two truncates toward zero.
CDiv2(a) == IF a >= 0 THEN a \div 2 ELSE -((-a) \div 2)

\* GenericComparator: -1, 0 or 1.
Cmp(a, b) == IF a < b THEN -1 ELSE IF a > b THEN 1 ELSE 0

SetMin(S) == CHOOSE x \in S : \A y \in S : x <= y

\* ------------------------------------------------------------ page frames
RawPage(b) ==
    [type |-> b, size |-> b, max |-> b, parent |-> b, pid |-> b, next |-> b,
     arr |-> [i \in 1..Cap |-> [k |-> b, v |-> b]]]

StalePage ==
    [type |-> INTERNAL_PAGE, size |-> 0, max |-> InternalMaxSize,
     parent |-> INVALID_PAGE_ID, pid |-> INVALID_PAGE_ID, next |-> INVALID_PAGE_ID,
     arr |-> [i \in 1..Cap |-> [k |-> 0, v |-> 0]]]

WildPage(w) ==
    IF w = "stale" THEN StalePage
    ELSE IF w = "ones" THEN RawPage(-1)
    ELSE RawPage(0)

\* array[i] of the page, 0-based as in the source.
Slot(p, i) == p.arr[i + 1]
SetSlot(p, i, e) == [p EXCEPT !.arr[i + 1] = e]
InArray(i) == i >= 0 /\ i < Cap

IsLeafPage(p) == p.type = LEAF_PAGE
IsRootPage(p) == p.parent = INVALID_PAGE_ID

\* -------------------------------------------------------------- leaf page
\* BPlusTreeLeafPage::SetNextPageId assigns the field to itself.
SetNextPageId(p, next_page_id_arg) == [p EXCEPT !.next = p.next]

\* BPlusTreeLeafPage::Init: the frame keeps whatever the slots and the next
\* field held before.
LeafInit(p, page_id, parent_id) ==
    SetNextPageId([p EXCEPT !.type = LEAF_PAGE, !.size = 0, !.pid = page_id,
                            !.parent = parent_id, !.max = LeafMaxSize],
                  INVALID_PAGE_ID)

LeafKeyAt(p, index) == Slot(p, index).k

\* BPlusTreeLeafPage::Lookup: [found, value] of the first slot with an equal key.
LeafLookup(p, key) ==
    LET hits == {i \in 0..(p.size - 1) : Cmp(key, Slot(p, i).k) = 0}
    IN  IF hits = {} THEN [found |-> FALSE, value |-> 0]
        ELSE [found |-> TRUE, value |-> Slot(p, SetMin(hits)).v]

\* BPlusTreeLeafPage::Insert.  Both tests of the scan compare the comparator's
\* result with the key itself: the first returns without inserting, the second
\* (the same test) never breaks, so the scan otherwise ends at i = size and the
\* pair is written behind the last slot.
LeafInsert(p, key, value) ==
    IF \E i \in 0..(p.size - 1) : Cmp(Slot(p, i).k, key) = key
    THEN p
    ELSE [SetSlot(p, p.size, [k |-> key, v |-> value]) EXCEPT !.size = p.size + 1]

\* A CopyHalfFrom that takes size / 2 entries, as MoveHalfTo keeps.
LeafCopyHalfFrom_floor(r, items, size) ==
    LET half == CDiv2(size)
    IN  [r EXCEPT !.size = half,
                  !.arr = [j \in 1..Cap |->
                             IF j - 1 < half THEN items[(size - half) + j]
                             ELSE r.arr[j]]]

\* BPlusTreeLeafPage::CopyHalfFrom(items, size)
LeafCopyHalfFrom(r, items, size) ==
    LET half == size - CDiv2(size)
    IN  [r EXCEPT !.size = half,
                  !.arr = [j \in 1..Cap |->
                             IF j - 1 < half THEN items[(size - half) + j]
                             ELSE r.arr[j]]]

\* A MoveHalfTo that keeps (size + 1) / 2 entries in this page.
LeafMoveHalfTo_ceil(p, r) ==
    <<[p EXCEPT !.size = CDiv2(p.size + 1)], LeafCopyHalfFrom(r, p.arr, p.size)>>

\* BPlusTreeLeafPage::MoveHalfTo: <<this page, recipient>> afterwards.
LeafMoveHalfTo(p, r) ==
    <<[p EXCEPT !.size = CDiv2(p.size)], LeafCopyHalfFrom(r, p.arr, p.size)>>

\* A RemoveAndDeleteRecord that lowers the size and leaves the slots alone.
LeafRemoveAndDeleteRecord_noShift(p, key) ==
    IF \E i \in 0..(p.size - 1) : Cmp(key, Slot(p, i).k) = 0
    THEN [p EXCEPT !.size = p.size - 1]
    ELSE p

\* BPlusTreeLeafPage::RemoveAndDeleteRecord: the page afterwards.
LeafRemoveAndDeleteRecord(p, key) ==
    LET hits == {i \in 0..(p.size - 1) : Cmp(key, Slot(p, i).k) = 0}
    IN  IF hits = {} THEN p
        ELSE LET at == SetMin(hits)
             IN  [p EXCEPT !.size = p.size - 1,
                           !.arr = [j \in 1..Cap |->
                                      IF j - 1 >= at /\ j - 1 < p.size - 1
                                      THEN p.arr[j + 1] ELSE p.arr[j]]]

\* ---------------------------------------------------------- internal page
\* BPlusTreeInternalPage::Init (the tree never calls it).
InternalInit(p, page_id, parent_id) ==
    [p EXCEPT !.type = INTERNAL_PAGE, !.size = 0, !.pid = page_id,
              !.parent = parent_id, !.max = InternalMaxSize]

InternalKeyAt(p, index) == Slot(p, index).k
ValueAt(p, index) == Slot(p, index).v

\* BPlusTreeInternalPage::ValueIndex
ValueIndex(p, value) ==
    LET hits == {i \in 0..(p.size - 1) : Slot(p, i).v = value}
    IN  IF hits = {} THEN -1 ELSE SetMin(hits)

\* BPlusTreeInternalPage::PopulateNewRoot: size is not set.
PopulateNewRoot(p, old_value, new_key, new_value) ==
    [p EXCEPT !.arr[1] = [k |-> p.arr[1].k, v |-> old_value],
              !.arr[2] = [k |-> new_key, v |-> new_value]]

\* The highest slot InsertNodeAfter writes is array[max(size, 0)].
InsertNodeAfterInArray(p) == p.size < Cap

\* An InsertNodeAfter that writes the pair over slot index + 1 and moves no
\* slot.
InsertNodeAfter_noShift(p, old_value, new_key, new_value) ==
    LET index == ValueIndex(p, old_value)
    IN  [SetSlot(p, index + 1, [k |-> new_key, v |-> new_value])
           EXCEPT !.size = p.size + 1]

\* BPlusTreeInternalPage::InsertNodeAfter: the page afterwards.
InsertNodeAfter(p, old_value, new_key, new_value) ==
    LET index == ValueIndex(p, old_value)
    IN  [p EXCEPT !.size = p.size + 1,
                  !.arr = [j \in 1..Cap |->
                             IF j - 1 = index + 1 THEN [k |-> new_key, v |-> new_value]
                             ELSE IF j - 1 > index + 1 /\ j - 1 <= p.size THEN p.arr[j - 1]
                             ELSE p.arr[j]]]

\* BPlusTreeInternalPage::CopyHalfFrom(items, size)
InternalCopyHalfFrom(r, items, size) ==
    LET half == size - CDiv2(size + 1)
    IN  [r EXCEPT !.size = half,
                  !.arr = [j \in 1..Cap |->
                             IF j - 1 < half THEN items[(size - half) + j]
                             ELSE r.arr[j]]]

\* A MoveHalfTo that keeps size / 2 entries in this page.
InternalMoveHalfTo_floor(p, r) ==
    <<[p EXCEPT !.size = CDiv2(p.size)], InternalCopyHalfFrom(r, p.arr, p.size)>>

\* BPlusTreeInternalPage::MoveHalfTo: <<this page, recipient>> afterwards.
InternalMoveHalfTo(p, r) ==
    <<[p EXCEPT !.size = CDiv2(p.size + 1)], InternalCopyHalfFrom(r, p.arr, p.size)>>

\* ------------------------------------------------------------ buffer pool
\* The tree's view of memory: m.ok turns FALSE when the operation ends the
\* process.
Mach ==
    [pages |-> pages, root |-> root_page_id_, next |-> next_page_id,
     wild |-> wild, pool |-> pool_size, pins |-> 0, ok |-> TRUE]

Crash(m) == [m EXCEPT !.ok = FALSE]

\* FetchPage(id) returns a frame: the header page, a page NewPage handed out,
\* or, for INVALID_PAGE_ID, whatever the pool makes of that id.  Nothing is
\* ever unpinned, so a page once handed out stays resident.
Fetchable(m, id) ==
    \/ id = INVALID_PAGE_ID /\ m.wild # "null"
    \/ id = HEADER_PAGE_ID
    \/ id >= 1 /\ id < m.next

\* NewPage returns nullptr once every frame is taken.
PoolFull(m) == m.next > m.pool

\* FetchPage and NewPage pin the page they return; the tree calls UnpinPage
\* in UpdateRootPageId only, so every page an operation obtains stays pinned.
Pin(m) == [m EXCEPT !.pins = @ + 1]

\* ----------------------------------------------------------------- search
GVUndefined == [st |-> "ub", ret |-> FALSE, result |-> <<>>, pins |-> 0]

\* BPlusTree::GetValueHelper: no page is tested for nullptr and no page id for
\* INVALID_PAGE_ID; fuel bounds a descent that never reaches a leaf.  pins
\* counts the pages the call and its recursive calls fetched and left pinned.
RECURSIVE GetValueHelper(_, _, _, _)
GetValueHelper(m, key, pageId, fuel) ==
    IF fuel = 0 \/ ~Fetchable(m, pageId) THEN GVUndefined
    ELSE LET currPage == m.pages[pageId]
         IN  IF IsLeafPage(currPage)
             THEN LET r == LeafLookup(currPage, key)
                  IN  [st |-> "ok", ret |-> r.found,
                       result |-> IF r.found THEN <<r.value>> ELSE <<>>,
                       pins |-> 1]
             ELSE IF currPage.size > Cap THEN GVUndefined
             ELSE LET less == {i \in 1..(currPage.size - 1) :
                                 Cmp(key, InternalKeyAt(currPage, i)) < 0}
                      child == IF less # {} THEN SetMin(less) - 1
                               ELSE currPage.size - 1
                  IN  IF ~InArray(child) THEN GVUndefined
                      ELSE LET r == GetValueHelper(m, key, ValueAt(currPage, child),
                                                   fuel - 1)
                           IN  [r EXCEPT !.pins = @ + 1]

Fuel == MaxPages + 3

\* BPlusTree::GetValue
GetValueOf(m, key) == GetValueHelper(m, key, m.root, Fuel)

\* -------------------------------------------------------------- insertion
NoLeaf == INVALID_PAGE_ID - 1

\* The descent loop of BPlusTree::InsertIntoLeaf.  The `continue` in the scan
\* of the separators continues the scan, not the descent, and the assignment
\* after the scan overwrites what the scan chose: the descent always takes the
\* child of the last slot.
RECURSIVE InsertDescent(_, _, _, _)
InsertDescent(m, key, currId, fuel) ==
    IF fuel = 0 \/ ~Fetchable(m, currId) THEN NoLeaf
    ELSE LET page == m.pages[currId]
         IN  IF IsLeafPage(page) THEN currId
             ELSE IF ~InArray(page.size - 1) THEN NoLeaf
             ELSE InsertDescent(m, key, ValueAt(page, page.size - 1), fuel - 1)

\* The pages the descent loop fetches on its way to leaf page leafId.
RECURSIVE InsertDescentFetches(_, _, _)
InsertDescentFetches(m, currId, fuel) ==
    IF fuel = 0 \/ ~Fetchable(m, currId) THEN 0
    ELSE LET page == m.pages[currId]
         IN  IF IsLeafPage(page) \/ ~InArray(page.size - 1) THEN 1
             ELSE 1 + InsertDescentFetches(m, ValueAt(page, page.size - 1), fuel - 1)

\* BPlusTree::InsertIntoParent(old_node, key, new_node); oldF and newF are the
\* frames the two pointers name.  The parent is fetched by old_node's
\* parent_page_id whatever it is, the new internal page is never initialised,
\* and a new root gets newPage->ValueAt(0) as its second child.
RECURSIVE InsertIntoParent(_, _, _, _)
InsertIntoParent(m, oldF, key, newF) ==
    LET old_node == m.pages[oldF]
        new_node == m.pages[newF]
        parentId == old_node.parent
    IN  IF ~Fetchable(m, parentId) THEN Crash(m)
        ELSE IF m.pages[parentId].size > Cap
                \/ ~InsertNodeAfterInArray(m.pages[parentId]) THEN Crash(m)
        ELSE
        LET page1 == InsertNodeAfter(m.pages[parentId], old_node.pid, key, new_node.pid)
            m1 == Pin([m EXCEPT !.pages[parentId] = page1])
        IN  IF page1.size < page1.max THEN m1
            ELSE IF PoolFull(m1) THEN Crash(m1)
            ELSE
            LET newId == m1.next
                halves == InternalMoveHalfTo(page1, m1.pages[newId])
                m2 == Pin([m1 EXCEPT !.pages[parentId] = halves[1],
                                     !.pages[newId] = halves[2],
                                     !.next = newId + 1])
            IN  IF IsRootPage(halves[1])
                THEN IF PoolFull(m2) THEN Crash(m2)
                     ELSE LET rootId == m2.next
                          IN  Pin([m2 EXCEPT !.pages[rootId] =
                                                 PopulateNewRoot(m2.pages[rootId],
                                                                 halves[1].pid,
                                                                 InternalKeyAt(halves[2], 0),
                                                                 ValueAt(halves[2], 0)),
                                             !.root = rootId,
                                             !.next = rootId + 1])
                ELSE InsertIntoParent(m2, parentId, InternalKeyAt(halves[2], 0), newId)

\* BPlusTree::InsertToLeaf
InsertToLeaf(m, leafId, key, value) ==
    LET page1 == LeafInsert(m.pages[leafId], key, value)
        m1 == Pin([m EXCEPT !.pages[leafId] = page1])
    IN  IF page1.size < page1.max THEN m1
        ELSE IF PoolFull(m1) THEN Crash(m1)
        ELSE
        LET newPageId == m1.next
            newPage == LeafInit(m1.pages[newPageId], newPageId, page1.parent)
            halves == LeafMoveHalfTo(page1, newPage)
            m2 == Pin([m1 EXCEPT !.pages[leafId] = halves[1],
                                 !.pages[newPageId] = halves[2],
                                 !.next = newPageId + 1])
        IN  InsertIntoParent(m2, leafId, LeafKeyAt(halves[2], 0), newPageId)

\* BPlusTree::InsertIntoLeaf: [m, ret].
InsertIntoLeaf(m, key, value) ==
    LET currId == InsertDescent(m, key, m.root, Fuel)
        \* the descent's fetches and the fetch of the leaf behind the loop
        m0 == [m EXCEPT !.pins = @ + InsertDescentFetches(m, m.root, Fuel) + 1]
    IN  IF currId = NoLeaf THEN [m |-> Crash(m), ret |-> FALSE]
        ELSE IF LeafLookup(m.pages[currId], key).found THEN [m |-> m0, ret |-> FALSE]
        ELSE [m |-> InsertToLeaf(m0, currId, key, value), ret |-> TRUE]

\* A StartNewTree that takes the new page's id into a local and leaves
\* root_page_id_ as it was.
StartNewTree_noRoot(m, key, value) ==
    IF PoolFull(m) THEN Crash(m)
    ELSE LET rootId == m.next
         IN  Pin([m EXCEPT !.next = rootId + 1,
                           !.pages[rootId] =
                               LeafInsert(LeafInit(m.pages[rootId], rootId, INVALID_PAGE_ID),
                                          key, value)])

\* BPlusTree::StartNewTree: a nullptr from NewPage is dereferenced.
StartNewTree(m, key, value) ==
    IF PoolFull(m) THEN Crash(m)
    ELSE LET rootId == m.next
         IN  Pin([m EXCEPT !.root = rootId,
                           !.next = rootId + 1,
                           !.pages[rootId] =
                               LeafInsert(LeafInit(m.pages[rootId], rootId, INVALID_PAGE_ID),
                                          key, value)])

\* BPlusTree::Insert: [m, ret]; the result of InsertIntoLeaf is dropped.
InsertOp(m, key, value) ==
    IF m.root = INVALID_PAGE_ID
    THEN [m |-> StartNewTree(m, key, value), ret |-> TRUE]
    ELSE [m |-> InsertIntoLeaf(m, key, value).m, ret |-> TRUE]

\* A Remove that takes the last slot off the root page without looking for the
\* key.
RemoveOp_unconditional(m, key) ==
    IF m.root = INVALID_PAGE_ID THEN m
    ELSE [m EXCEPT !.pages[m.root] = [@ EXCEPT !.size = @ - 1]]

\* BPlusTree::Remove has an empty body.
RemoveOp(m, key) == m

\* BPlusTree::IsEmpty
IsEmptyOf(m) == m.root = INVALID_PAGE_ID

\* --------------------------------------------------------------- iterator
\* IndexIterator as the specification describes it: a cursor (leaf page id,
\* slot) that is at its end when the page id is INVALID_PAGE_ID and that moves
\* to next_page_id behind the last slot of a leaf.  The keys it yields from
\* slot 0 of page cur on; st is "ub" when it lands on a page that is no leaf.
RECURSIVE IterateFrom(_, _, _)
IterateFrom(m, cur, fuel) ==
    IF cur = INVALID_PAGE_ID THEN [st |-> "ok", keys |-> <<>>]
    ELSE IF fuel = 0 \/ ~Fetchable(m, cur) THEN [st |-> "ub", keys |-> <<>>]
    ELSE IF ~IsLeafPage(m.pages[cur]) THEN [st |-> "ub", keys |-> <<>>]
    ELSE LET leaf == m.pages[cur]
             rest == IterateFrom(m, leaf.next, fuel - 1)
         IN  [st |-> rest.st,
              keys |-> [i \in 1..leaf.size |-> leaf.arr[i].k] \o rest.keys]

\* BPlusTree::Begin() returns a default-constructed iterator: it is given
\* neither the tree nor a leaf, so the page it names does not come from
\* root_page_id_.
BeginStarts(m) == {INVALID_PAGE_ID} \cup {id \in 1..MaxPages : id < m.next}

\* ---------------------------------------------------------- specification
NoMap == [k \in Keys |-> 0]

\* pinned: the pages the call obtained and did not unpin.
NoCall == [op |-> "none", key |-> 0, val |-> 0, ret |-> FALSE, result |-> <<>>,
           pinned |-> 0]

\* No thread is inside a page.
NoThreads == [w |-> "idle", r |-> "idle"]

Init ==
    /\ wild \in WildImages
    /\ \E fill \in RawBytes :
          pages = [id \in PageIds |->
                     IF id = INVALID_PAGE_ID THEN WildPage(wild)
                     ELSE IF id = HEADER_PAGE_ID THEN RawPage(0)
                     ELSE RawPage(fill)]
    /\ root_page_id_ = INVALID_PAGE_ID
    /\ next_page_id = 1
    /\ pool_size \in PoolSizes
    /\ thr = NoThreads
    /\ header = {}
    /\ crashed = FALSE
    /\ last = NoCall
    /\ run = "distinct"
    /\ runMap = NoMap
    /\ allTrue = TRUE

Insert(key, value) ==
    /\ ~crashed
    /\ LET r == InsertOp(Mach, key, value)
       IN  /\ crashed' = ~r.m.ok
           /\ IF r.m.ok
              THEN /\ pages' = r.m.pages
                   /\ root_page_id_' = r.m.root
                   /\ next_page_id' = r.m.next
              ELSE UNCHANGED <<pages, root_page_id_, next_page_id>>
           /\ last' = [op |-> "Insert", key |-> key, val |-> value,
                       ret |-> r.m.ok /\ r.ret, result |-> <<>>,
                       pinned |-> IF r.m.ok THEN r.m.pins ELSE 0]
           /\ allTrue' = (allTrue /\ r.m.ok /\ r.ret)
    /\ run' = IF run = "distinct" /\ runMap[key] = 0 THEN "distinct"
              ELSE IF run \in {"distinct", "inserts"} THEN "inserts"
              ELSE "other"
    /\ runMap' = IF run = "distinct" /\ runMap[key] = 0
                 THEN [runMap EXCEPT ![key] = value]
                 ELSE NoMap
    /\ UNCHANGED <<wild, pool_size, thr, header>>

GetValue(key) ==
    /\ ~crashed
    /\ LET r == GetValueOf(Mach, key)
       IN  IF r.st = "ok"
           THEN /\ last' = [op |-> "GetValue", key |-> key, val |-> 0,
                            ret |-> r.ret, result |-> r.result, pinned |-> r.pins]
                /\ crashed' = FALSE
           ELSE \* undefined behaviour: the call ends the process or returns anything
                \/ /\ crashed' = TRUE
                   /\ last' = [op |-> "GetValue", key |-> key, val |-> 0,
                               ret |-> FALSE, result |-> <<>>, pinned |-> 0]
                \/ /\ crashed' = FALSE
                   /\ \E res \in {<<>>} \cup {<<v>> : v \in Vals} :
                         last' = [op |-> "GetValue", key |-> key, val |-> 0,
                                  ret |-> (res # <<>>), result |-> res, pinned |-> 0]
    /\ UNCHANGED <<pages, root_page_id_, next_page_id, wild, pool_size, thr, header,
                   run, runMap, allTrue>>

Remove(key) ==
    /\ ~crashed
    /\ LET m == RemoveOp(Mach, key)
       IN  /\ pages' = m.pages
           /\ root_page_id_' = m.root
           /\ next_page_id' = m.next
    /\ last' = [op |-> "Remove", key |-> key, val |-> 0, ret |-> FALSE, result |-> <<>>,
                pinned |-> 0]
    /\ run' = IF run \in {"distinct", "removing"} THEN "removing" ELSE "other"
    /\ runMap' = IF run \in {"distinct", "removing"}
                 THEN [runMap EXCEPT ![key] = 0]
                 ELSE NoMap
    /\ UNCHANGED <<wild, pool_size, thr, header, crashed, allTrue>>

IsEmpty ==
    /\ ~crashed
    /\ last' = [op |-> "IsEmpty", key |-> 0, val |-> 0,
                ret |-> IsEmptyOf(Mach), result |-> <<>>, pinned |-> 0]
    /\ UNCHANGED <<pages, root_page_id_, next_page_id, wild, pool_size, thr, header, crashed,
                   run, runMap, allTrue>>

\* Begin() and the iteration to the end.
Begin ==
    /\ ~crashed
    /\ \E start \in BeginStarts(Mach) :
          LET r == IterateFrom(Mach, start, Fuel)
          IN  /\ crashed' = (r.st # "ok")
              /\ last' = [op |-> "Begin", key |-> 0, val |-> 0, ret |-> FALSE,
                          result |-> r.keys, pinned |-> 0]
    /\ UNCHANGED <<pages, root_page_id_, next_page_id, wild, pool_size, thr, header,
                   run, runMap, allTrue>>

Next ==
    \/ \E key \in Keys : \E value \in ValsOf(key) : Insert(key, value)
    \/ \E key \in Keys : GetValue(key)
    \/ \E key \in Keys : Remove(key)
    \/ IsEmpty
    \/ Begin

Spec == Init /\ [][Next]_vars

\* ------------------------------------------------- the split of a full node
\* The two splits on their own, applied to a node that has just reached
\* max_size, for every max_size from 2 to the capacity of the slot array.
\* pages[1] is the node that splits and pages[2] the frame NewPage hands out.
PageKeys == 1..Cap

InjSeqs(n) ==
    {s \in [1..n -> PageKeys] : \A i, j \in 1..n : i # j => s[i] # s[j]}

\* A leaf in the order its keys were inserted, RID = key.
FullLeaf(s) ==
    LET n == Len(s)
    IN  [LeafInit(RawPage(0), 1, INVALID_PAGE_ID)
           EXCEPT !.max = n, !.size = n,
                  !.arr = [j \in 1..Cap |->
                             IF j <= n THEN [k |-> s[j], v |-> s[j]] ELSE @[j]]]

\* An internal page whose slot i names child page s[i].
FullInternal(s) ==
    LET n == Len(s)
    IN  [InternalInit(RawPage(0), 1, INVALID_PAGE_ID)
           EXCEPT !.max = n, !.size = n,
                  !.arr = [j \in 1..Cap |->
                             IF j <= n THEN [k |-> s[j], v |-> s[j]] ELSE @[j]]]

InitPage ==
    /\ \E n \in 2..Cap : \E s \in InjSeqs(n) : \E fill \in RawBytes :
       \E node \in {FullLeaf(s), FullInternal(s)} :
          pages = [id \in PageIds |->
                     IF id = 1 THEN node
                     ELSE IF id = 2 THEN RawPage(fill)
                     ELSE RawPage(0)]
    /\ wild = "null"
    /\ pool_size = MaxPages
    /\ thr = NoThreads
    /\ root_page_id_ = 1
    /\ next_page_id = 2
    /\ header = {}
    /\ crashed = FALSE
    /\ last = NoCall
    /\ run = "other"
    /\ runMap = NoMap
    /\ allTrue = TRUE

\* The split of BPlusTree::InsertToLeaf: NewPage, Init, MoveHalfTo.
SplitLeaf ==
    /\ last.op = "none"
    /\ IsLeafPage(pages[1])
    /\ LET newPage == LeafInit(pages[2], 2, pages[1].parent)
           halves == LeafMoveHalfTo(pages[1], newPage)
       IN  pages' = [pages EXCEPT ![1] = halves[1], ![2] = halves[2]]
    /\ next_page_id' = next_page_id + 1
    /\ last' = [NoCall EXCEPT !.op = "SplitLeaf"]
    /\ UNCHANGED <<root_page_id_, wild, pool_size, thr, header, crashed, run, runMap, allTrue>>

\* The split of BPlusTree::InsertIntoParent: NewPage, MoveHalfTo (no Init).
SplitInternal ==
    /\ last.op = "none"
    /\ ~IsLeafPage(pages[1])
    /\ LET halves == InternalMoveHalfTo(pages[1], pages[2])
       IN  pages' = [pages EXCEPT ![1] = halves[1], ![2] = halves[2]]
    /\ next_page_id' = next_page_id + 1
    /\ last' = [NoCall EXCEPT !.op = "SplitInternal"]
    /\ UNCHANGED <<root_page_id_, wild, pool_size, thr, header, crashed, run, runMap, allTrue>>

NextPage ==
    \/ SplitLeaf
    \/ SplitInternal

SpecPage == InitPage /\ [][NextPage]_vars

\* ------------------------------------------------------ vocabulary of the
\* properties
\* GetValue finds the key.
Contains(m, key) ==
    LET r == GetValueOf(m, key) IN r.st = "ok" /\ r.ret

\* The pages a traversal from page id can reach through child pointers.
RECURSIVE Reach(_, _, _)
Reach(m, id, fuel) ==
    IF id = INVALID_PAGE_ID \/ fuel = 0 \/ ~Fetchable(m, id) THEN {}
    ELSE LET p == m.pages[id]
             n == IF p.size > Cap THEN Cap ELSE p.size
         IN  {id} \cup (IF IsLeafPage(p) THEN {}
                        ELSE UNION {Reach(m, ValueAt(p, i), fuel - 1) : i \in 0..(n - 1)})

TreeNodes(m) == Reach(m, m.root, Fuel)

LeafKeys(p) == {Slot(p, i).k : i \in 0..(p.size - 1)}

\* The keys stored in the leaves below (and including) page id.
SubtreeKeys(m, id) ==
    UNION {LeafKeys(m.pages[n]) : n \in {x \in Reach(m, id, Fuel) : IsLeafPage(m.pages[x])}}

TreeHolds(m, key) == key \in SubtreeKeys(m, m.root)

\* Every leaf page the tree has created.
AllLeaves(m) == {id \in 1..MaxPages : id < m.next /\ IsLeafPage(m.pages[id])}

RECURSIVE SortedSeq(_)
SortedSeq(S) ==
    IF S = {} THEN <<>> ELSE <<SetMin(S)>> \o SortedSeq(S \ {SetMin(S)})

CeilHalf(n) == (n + 1) \div 2
FloorHalf(n) == n \div 2

\* -------------------------------------------------------------- properties

\* C1: after Insert(k, v) of pairwise distinct keys into an initially empty
\* tree, every Insert returned true and GetValue(k) returns true with the
\* result list exactly [v] for every inserted k.
C1_InsertThenGetValue ==
    (run = "distinct" /\ ~crashed) =>
        /\ allTrue
        /\ \A k \in Keys :
              runMap[k] # 0 =>
                 LET r == GetValueOf(Mach, k)
                 IN  r.st = "ok" /\ r.ret /\ r.result = <<runMap[k]>>

\* C2: an Insert of a key the tree already contains returns false and changes
\* nothing: the pages are the same and GetValue of the key still returns the
\* value it returned before.
C2_DuplicateInsertRejected ==
    [][(last'.op = "Insert" /\ Contains(Mach, last'.key)) =>
          /\ ~crashed'
          /\ last'.ret = FALSE
          /\ pages' = pages
          /\ root_page_id_' = root_page_id_
          /\ GetValueOf(Mach', last'.key) = GetValueOf(Mach, last'.key)]_vars

\* C3: GetValue of a key that is not in the tree, the empty tree included,
\* returns false and leaves the result list empty (and does not end the
\* process).
C3_AbsentKeyReturnsFalse ==
    (last.op = "GetValue" /\ ~TreeHolds(Mach, last.key)) =>
        (~crashed /\ last.ret = FALSE /\ last.result = <<>>)

\* C4: after Remove(k) of a key the tree contains, GetValue(k) returns false
\* and every other key is found with the value it had.
C4_RemoveThenGetValue ==
    [][(last'.op = "Remove" /\ Contains(Mach, last'.key)) =>
          /\ LET r == GetValueOf(Mach', last'.key)
             IN  r.st = "ok" /\ ~r.ret /\ r.result = <<>>
          /\ \A j \in Keys \ {last'.key} :
                Contains(Mach, j) => GetValueOf(Mach', j) = GetValueOf(Mach, j)]_vars

\* C5: Remove(k) of a key that is absent (GetValue does not find it; the tree
\* may be empty) is a no-op: the pages, and so the stored pairs, the root page
\* id and the header-page record are what they were.
C5_RemoveAbsentIsNoOp ==
    [][(last'.op = "Remove" /\ ~Contains(Mach, last'.key)) =>
          /\ pages' = pages
          /\ root_page_id_' = root_page_id_
          /\ next_page_id' = next_page_id
          /\ header' = header
          /\ ~crashed']_vars

\* C5 happens: a Remove of a key that GetValue does not find, on a tree that
\* is not empty, has returned.
C5_Witness ==
    /\ last.op = "Remove"
    /\ root_page_id_ # INVALID_PAGE_ID
    /\ \E k \in Keys : Contains(Mach, k)
    /\ ~Contains(Mach, last.key)
    /\ ~crashed

\* C6: after a set of distinct keys was inserted into an empty tree and every
\* one of them removed again, IsEmpty() is true and root_page_id_ is
\* INVALID_PAGE_ID.
C6_RemoveAllEmpties ==
    (run = "removing" /\ runMap = NoMap /\ ~crashed) =>
        (IsEmptyOf(Mach) /\ root_page_id_ = INVALID_PAGE_ID)

\* C7: an iteration from Begin() to the end yields every key of the tree once,
\* in strictly ascending order.
C7_IterationAscending ==
    (last.op = "Begin" /\ run = "distinct" /\ ~crashed) =>
        last.result = SortedSeq({k \in Keys : runMap[k] # 0})

\* C8: after any sequence of Inserts the keys of every leaf are strictly
\* ascending in slot order and no key is in two slots of the tree.
C8_LeafKeysAscendingUnique ==
    (run \in {"distinct", "inserts"} /\ ~crashed) =>
        /\ \A id \in AllLeaves(Mach) :
              \A i, j \in 0..(pages[id].size - 1) :
                 i < j => LeafKeyAt(pages[id], i) < LeafKeyAt(pages[id], j)
        /\ \A a, b \in AllLeaves(Mach) :
              a # b => LeafKeys(pages[a]) \cap LeafKeys(pages[b]) = {}

\* C9: every internal node of the tree has a child at slot 0, its keys in
\* slots 1..size-1 are strictly ascending, the keys below child i (i >= 1) are
\* at least the key of slot i, and the keys below child 0 are less than the
\* key of slot 1.
C9_InternalNodeOrdered ==
    ~crashed =>
        \A id \in TreeNodes(Mach) :
           ~IsLeafPage(pages[id]) =>
              LET p == pages[id]
              IN  /\ p.size >= 1
                  /\ p.size <= Cap
                  /\ ValueAt(p, 0) # INVALID_PAGE_ID
                  /\ Fetchable(Mach, ValueAt(p, 0))
                  /\ \A i, j \in 1..(p.size - 1) :
                        i < j => InternalKeyAt(p, i) < InternalKeyAt(p, j)
                  /\ \A i \in 1..(p.size - 1) :
                        \A k \in SubtreeKeys(Mach, ValueAt(p, i)) :
                           k >= InternalKeyAt(p, i)
                  /\ p.size >= 2 =>
                        \A k \in SubtreeKeys(Mach, ValueAt(p, 0)) :
                           k < InternalKeyAt(p, 1)

RECURSIVE ChainFrom(_, _, _)
ChainFrom(m, id, fuel) ==
    IF id = INVALID_PAGE_ID THEN [ok |-> TRUE, ids |-> <<>>]
    ELSE IF fuel = 0 \/ id \notin AllLeaves(m) THEN [ok |-> FALSE, ids |-> <<>>]
    ELSE LET rest == ChainFrom(m, m.pages[id].next, fuel - 1)
         IN  [ok |-> rest.ok, ids |-> <<id>> \o rest.ids]

\* C11: after any sequence of Inserts the next_page_id chain from the leftmost
\* leaf visits every leaf of the tree exactly once, in ascending key order, and
\* ends at a leaf whose next_page_id is INVALID_PAGE_ID (so a lone, freshly
\* initialised leaf has next = INVALID_PAGE_ID and a split links L to R).
C11_NextChainVisitsAllLeaves ==
    (run \in {"distinct", "inserts"} /\ ~crashed /\ AllLeaves(Mach) # {}) =>
        \E start \in AllLeaves(Mach) :
           LET c == ChainFrom(Mach, start, Fuel)
           IN  /\ c.ok
               /\ Len(c.ids) = Cardinality(AllLeaves(Mach))
               /\ {c.ids[i] : i \in 1..Len(c.ids)} = AllLeaves(Mach)
               /\ \A i \in 1..(Len(c.ids) - 1) :
                     \A a \in LeafKeys(pages[c.ids[i]]) :
                        \A b \in LeafKeys(pages[c.ids[i + 1]]) : a < b

\* Every page the tree has obtained from NewPage.
TreePages(m) == {id \in 1..MaxPages : id < m.next}

\* C12: after every completed operation the root is the only node whose
\* parent_page_id is INVALID_PAGE_ID, and every other node's parent_page_id
\* names an existing internal node that holds the node's page id as a child
\* value at exactly one slot.
C12_ParentLinks ==
    ~crashed =>
        \A id \in TreePages(Mach) :
           IF id = root_page_id_ THEN pages[id].parent = INVALID_PAGE_ID
           ELSE LET par == pages[id].parent
                IN  /\ par \in TreePages(Mach)
                    /\ pages[par].type = INTERNAL_PAGE
                    /\ pages[par].size <= Cap
                    /\ Cardinality({i \in 0..(pages[par].size - 1) :
                                      ValueAt(pages[par], i) = id}) = 1

\* C13: after every completed operation the root page id recorded in the
\* header page under the index name is the in-memory root_page_id_ (a tree that
\* has a root has exactly that root on record).
C13_HeaderRecordsRoot ==
    (~crashed /\ root_page_id_ # INVALID_PAGE_ID) => header = {root_page_id_}

\* The pairs stored in the slots of the tree's leaves.
StoredPairs(m) ==
    UNION {{<<Slot(m.pages[id], i).k, Slot(m.pages[id], i).v>> :
              i \in 0..(m.pages[id].size - 1)} : id \in AllLeaves(m)}

C15_PinBalance ==
    (last.op \in {"GetValue", "Insert"} /\ ~crashed) => last.pinned = 0

\* C16: an Insert that leaves the node it inserts into below max_size
\* allocates no page and changes no other node, and an Insert that brings a
\* node to max_size splits it before returning: after a completed Insert no
\* node of the tree has size >= max_size.
C16_SplitExactlyAtMaxSize ==
    [][(last'.op = "Insert" /\ ~crashed') =>
          /\ \A id \in TreePages(Mach') : pages'[id].size < pages'[id].max
          /\ (root_page_id_ # INVALID_PAGE_ID
              /\ \A id \in AllLeaves(Mach) : pages[id].size < pages[id].max - 1) =>
                /\ next_page_id' = next_page_id
                /\ Cardinality({id \in PageIds : pages'[id] # pages[id]}) <= 1]_vars

\* ------------------------------------------------------------ the scenario
\* Keys 1, 2, 3, ... inserted in this order into an empty tree, one more key
\* than a leaf can hold, with reads in between.
ScenarioKeys == 1..(LeafMaxSize + 1)

Inserted == {k \in DOMAIN runMap : runMap[k] # 0}

InitScenario ==
    /\ wild \in WildImages
    /\ \E fill \in RawBytes :
          pages = [id \in PageIds |->
                     IF id = INVALID_PAGE_ID THEN WildPage(wild)
                     ELSE IF id = HEADER_PAGE_ID THEN RawPage(0)
                     ELSE RawPage(fill)]
    /\ root_page_id_ = INVALID_PAGE_ID
    /\ next_page_id = 1
    /\ pool_size = MaxPages
    /\ thr = NoThreads
    /\ header = {}
    /\ crashed = FALSE
    /\ last = NoCall
    /\ run = "distinct"
    /\ runMap = [k \in ScenarioKeys |-> 0]
    /\ allTrue = TRUE

\* The next key of the scenario, with RID = key.
InsertNextKey ==
    LET key == Cardinality(Inserted) + 1
    IN  key \in ScenarioKeys /\ Insert(key, key)

NextScenario ==
    \/ InsertNextKey
    \/ \E key \in ScenarioKeys : GetValue(key)
    \/ IsEmpty
    \/ Begin

SpecScenario == InitScenario /\ [][NextScenario]_vars

\* The keys of a leaf in slot order.
LeafKeySeq(p) == [i \in 1..p.size |-> p.arr[i].k]

\* C17: with max leaf size 4 and max internal size 4, after keys 1, 2, 3, 4
\* were inserted in order the tree is a single leaf holding 1, 2, 3, 4; after
\* key 5 was inserted next the root is an internal node [_, L1][3, L2] with
\* L1 = {1, 2}, L2 = {3, 4, 5} and L1.next = L2.
C17_ScenarioOneToFive ==
    (LeafMaxSize = 4 /\ InternalMaxSize = 4) =>
        /\ Inserted = 1..4 =>
              /\ ~crashed
              /\ TreePages(Mach) = {root_page_id_}
              /\ IsLeafPage(pages[root_page_id_])
              /\ LeafKeySeq(pages[root_page_id_]) = <<1, 2, 3, 4>>
        /\ Inserted = 1..5 =>
              /\ ~crashed
              /\ root_page_id_ \in TreePages(Mach)
              /\ LET root == pages[root_page_id_]
                     L1 == ValueAt(root, 0)
                     L2 == ValueAt(root, 1)
                 IN  /\ root.type = INTERNAL_PAGE
                     /\ root.size = 2
                     /\ InternalKeyAt(root, 1) = 3
                     /\ L1 \in AllLeaves(Mach)
                     /\ L2 \in AllLeaves(Mach)
                     /\ LeafKeys(pages[L1]) = {1, 2}
                     /\ LeafKeys(pages[L2]) = {3, 4, 5}
                     /\ pages[L1].next = L2

\* ------------------------------------------- two threads inside one leaf
\* A writer inside BPlusTreeLeafPage::Insert and a reader inside
\* BPlusTreeLeafPage::Lookup on the same root leaf.  Neither takes a latch, so
\* the accesses race: the writer's three stores (array[i].first,
\* array[i].second, the size) reach the reader in any order.
\* thr = [w: the writer's stores not yet visible, wk, wv: its pair, at: its
\*        slot, r: the reader's position, rk: its key, i: its loop index,
\*        pre: the leaf before the Insert]

\* A leaf as the tree builds it: Init on a fresh frame, then Inserts.
RECURSIVE LeafOf(_, _)
LeafOf(fill, ks) ==
    IF ks = <<>> THEN LeafInit(RawPage(fill), 1, INVALID_PAGE_ID)
    ELSE LeafInsert(LeafOf(fill, SubSeq(ks, 1, Len(ks) - 1)),
                    ks[Len(ks)], ks[Len(ks)])

\* Key sequences that leave room for one more pair without a split.
RoomyKeySeqs ==
    UNION {{s \in [1..n -> Keys] : \A i, j \in 1..n : i # j => s[i] # s[j]} :
             n \in 0..(LeafMaxSize - 2)}

\* The stores of BPlusTreeLeafPage::Insert behind its scan.
WriterStores(p, key, value) ==
    IF LeafInsert(p, key, value) = p THEN {} ELSE {"first", "second", "size"}

StoreFirst(p, at, key) == [p EXCEPT !.arr[at + 1].k = key]
StoreSecond(p, at, value) == [p EXCEPT !.arr[at + 1].v = value]
StoreSize(p, size) == [p EXCEPT !.size = size]

InitConc ==
    /\ wild = "null"
    /\ pool_size = MaxPages
    /\ root_page_id_ = 1
    /\ next_page_id = 2
    /\ header = {}
    /\ crashed = FALSE
    /\ last = NoCall
    /\ run = "other"
    /\ runMap = NoMap
    /\ allTrue = TRUE
    /\ \E fill \in RawBytes : \E ks \in RoomyKeySeqs :
       \E wk \in Keys : \E rk \in Keys :
          LET leaf == LeafOf(fill, ks)
          IN  /\ ~LeafLookup(leaf, wk).found
              /\ leaf.size <= LeafMaxSize - 2
              /\ pages = [id \in PageIds |-> IF id = 1 THEN leaf ELSE RawPage(0)]
              /\ thr = [w |-> WriterStores(leaf, wk, wk), wk |-> wk, wv |-> wk,
                        at |-> leaf.size, r |-> "size", rk |-> rk, i |-> 0,
                        pre |-> leaf]

\* One store of the writer becomes visible.
WriterStore ==
    /\ \E s \in thr.w :
          /\ pages' = [pages EXCEPT ![1] =
                         IF s = "first" THEN StoreFirst(@, thr.at, thr.wk)
                         ELSE IF s = "second" THEN StoreSecond(@, thr.at, thr.wv)
                         ELSE StoreSize(@, thr.at + 1)]
          /\ thr' = [thr EXCEPT !.w = @ \ {s}]
    /\ UNCHANGED <<root_page_id_, next_page_id, wild, pool_size, header, crashed,
                   last, run, runMap, allTrue>>

\* One step of the reader's Lookup: the loop test, the key comparison, or the
\* read of the value.
ReaderStep ==
    /\ thr.r \in {"size", "key", "value"}
    /\ LET leaf == pages[1]
       IN  \/ /\ thr.r = "size"
              /\ IF thr.i < leaf.size
                 THEN thr' = [thr EXCEPT !.r = "key"] /\ UNCHANGED last
                 ELSE /\ thr' = [thr EXCEPT !.r = "done"]
                      /\ last' = [NoCall EXCEPT !.op = "GetValue", !.key = thr.rk,
                                                !.pinned = 1]
           \/ /\ thr.r = "key"
              /\ IF Cmp(thr.rk, Slot(leaf, thr.i).k) = 0
                 THEN thr' = [thr EXCEPT !.r = "value"]
                 ELSE thr' = [thr EXCEPT !.r = "size", !.i = @ + 1]
              /\ UNCHANGED last
           \/ /\ thr.r = "value"
              /\ thr' = [thr EXCEPT !.r = "done"]
              /\ last' = [NoCall EXCEPT !.op = "GetValue", !.key = thr.rk,
                                        !.ret = TRUE,
                                        !.result = <<Slot(leaf, thr.i).v>>,
                                        !.pinned = 1]
    /\ UNCHANGED <<pages, root_page_id_, next_page_id, wild, pool_size, header,
                   crashed, run, runMap, allTrue>>

NextConc ==
    \/ WriterStore
    \/ ReaderStep

SpecConc == InitConc /\ [][NextConc]_vars

\* What GetValue returns on a leaf that nobody is writing.
ResultOn(p, key) ==
    LET r == LeafLookup(p, key)
    IN  [ret |-> r.found, result |-> IF r.found THEN <<r.value>> ELSE <<>>]

\* C18: a GetValue that runs concurrently with an Insert into the same leaf
\* returns what it would return on the leaf before the Insert or on the leaf
\* after it: never a value that belongs to neither.
C18_ReaderSeesBeforeOrAfter ==
    (thr.r = "done") =>
        [ret |-> last.ret, result |-> last.result]
            \in {ResultOn(thr.pre, thr.rk),
                 ResultOn(LeafInsert(thr.pre, thr.wk, thr.wv), thr.rk)}

\* The Insert of key into m has to obtain a page from NewPage: the tree is
\* empty, or the leaf the descent ends at reaches max_size.
NeedsNewPage(m, key, value) ==
    \/ m.root = INVALID_PAGE_ID
    \/ LET leafId == InsertDescent(m, key, m.root, Fuel)
       IN  /\ leafId # NoLeaf
           /\ ~LeafLookup(m.pages[leafId], key).found
           /\ LET page1 == LeafInsert(m.pages[leafId], key, value)
              IN  page1.size >= page1.max

\* C19: an Insert during which NewPage fails (for the first root leaf or for
\* the sibling of a split) reports the failure to its caller and leaves the
\* tree as it was before the call: same root_page_id_, same pages.
C19_NewPageFailureSurfaced ==
    [][(last'.op = "Insert" /\ PoolFull(Mach)
        /\ NeedsNewPage(Mach, last'.key, last'.val)) =>
          /\ ~crashed'
          /\ ~last'.ret
          /\ root_page_id_' = root_page_id_
          /\ pages' = pages]_vars

\* ------------------------------------------------------------ the descents
\* The leaf the routing of BPlusTree::GetValueHelper ends at.
RECURSIVE GetValueDescent(_, _, _, _)
GetValueDescent(m, key, pageId, fuel) ==
    IF fuel = 0 \/ ~Fetchable(m, pageId) THEN NoLeaf
    ELSE LET currPage == m.pages[pageId]
         IN  IF IsLeafPage(currPage) THEN pageId
             ELSE IF currPage.size > Cap THEN NoLeaf
             ELSE LET less == {i \in 1..(currPage.size - 1) :
                                 Cmp(key, InternalKeyAt(currPage, i)) < 0}
                      child == IF less # {} THEN SetMin(less) - 1
                               ELSE currPage.size - 1
                  IN  IF ~InArray(child) THEN NoLeaf
                      ELSE GetValueDescent(m, key, ValueAt(currPage, child), fuel - 1)

\* A well-formed tree of two levels, as an index opened with the root_page_id
\* of an existing tree has it: page 1 is the root with separators seps and
\* children 2, 3, ..., and the keys of stored lie in the leaves their
\* separators assign them to.
RootOver(seps) ==
    LET n == Cardinality(seps) + 1
        ks == SortedSeq(seps)
    IN  [InternalInit(RawPage(0), 1, INVALID_PAGE_ID)
           EXCEPT !.size = n,
                  !.arr = [j \in 1..Cap |->
                             IF j = 1 THEN [k |-> 0, v |-> 2]
                             ELSE IF j <= n THEN [k |-> ks[j - 1], v |-> j + 1]
                             ELSE @[j]]]

LeafUnder(seps, stored, j) ==
    LET ks == SortedSeq(seps)
        mine == {k \in stored : /\ (j > 1 => k >= ks[j - 1])
                                /\ (j <= Len(ks) => k < ks[j])}
        held == SortedSeq(mine)
    IN  [LeafInit(RawPage(0), j + 1, 1)
           EXCEPT !.size = Len(held),
                  !.next = IF j <= Len(ks) THEN j + 2 ELSE INVALID_PAGE_ID,
                  !.arr = [i \in 1..Cap |->
                             IF i <= Len(held) THEN [k |-> held[i], v |-> held[i]]
                             ELSE @[i]]]

InitDescent ==
    /\ \E seps \in SUBSET Keys : \E stored \in SUBSET Keys :
          /\ Cardinality(seps) \in 1..(MaxPages - 2)
          /\ Cardinality(seps) < InternalMaxSize - 1
          /\ Cardinality(stored) < LeafMaxSize
          /\ pages = [id \in PageIds |->
                        IF id = 1 THEN RootOver(seps)
                        ELSE IF id >= 2 /\ id <= Cardinality(seps) + 2
                             THEN LeafUnder(seps, stored, id - 1)
                        ELSE RawPage(0)]
          /\ next_page_id = Cardinality(seps) + 3
    /\ root_page_id_ = 1
    /\ wild = "null"
    /\ pool_size = MaxPages
    /\ thr = NoThreads
    /\ header = {1}
    /\ crashed = FALSE
    /\ last = NoCall
    /\ run = "other"
    /\ runMap = NoMap
    /\ allTrue = TRUE

\* The descent of Insert(key, ...), up to the leaf it ends at.
DescendForInsert(key) ==
    /\ last' = [NoCall EXCEPT !.op = "InsertDescent", !.key = key,
                              !.result = <<InsertDescent(Mach, key, root_page_id_, Fuel)>>]
    /\ UNCHANGED <<pages, root_page_id_, next_page_id, wild, pool_size, thr, header,
                   crashed, run, runMap, allTrue>>

\* The descent of GetValue(key), up to the leaf it ends at.
DescendForGetValue(key) ==
    /\ last' = [NoCall EXCEPT !.op = "GetValueDescent", !.key = key,
                              !.result = <<GetValueDescent(Mach, key, root_page_id_, Fuel)>>]
    /\ UNCHANGED <<pages, root_page_id_, next_page_id, wild, pool_size, thr, header,
                   crashed, run, runMap, allTrue>>

NextDescent ==
    \/ \E key \in Keys : DescendForInsert(key)
    \/ \E key \in Keys : DescendForGetValue(key)

SpecDescent == InitDescent /\ [][NextDescent]_vars

\* C20: for every tree and every key the descent of Insert follows the
\* routing rule (smallest i in [1, size) with key < key_i gives child i-1,
\* otherwise child size-1) and so ends at the leaf the descent of GetValue
\* ends at.
C20_InsertDescentFollowsRouting ==
    (last.op = "InsertDescent") =>
        last.result = <<GetValueDescent(Mach, last.key, root_page_id_, Fuel)>>

\* ------------------------------------------------------- the halves of a split
\* The entries of a page in slot order.
EntrySeq(p) == [i \in 1..p.size |-> p.arr[i]]

C24_SplitConservesEntries ==
    [][(SplitLeaf \/ SplitInternal) =>
          /\ EntrySeq(pages'[1]) \o EntrySeq(pages'[2]) = EntrySeq(pages[1])
          /\ pages'[1].size + pages'[2].size = pages[1].size]_vars

\* C24 happens: an internal page with an odd number of slots has been split
\* and the source keeps one slot more than the recipient received.
C24_Witness ==
    /\ last.op = "SplitInternal"
    /\ pages[2].size >= 2
    /\ pages[1].size = pages[2].size + 1

\* ------------------------------------------------------- the split of the root
\* C21: when the node that has just split is the root, InsertIntoParent
\* allocates a new internal root NR of size 2 whose slot 0 child is the old
\* node's page id and whose slot 1 is (separator key, new node's page id),
\* sets parent_page_id of the old node and of the new node to NR and sets
\* root_page_id to NR.  Stated for the first split, the split of a root leaf
\* by the Insert that brings it to max_size, in a pool that has frames left
\* for the new leaf and the new root.
C21_RootSplitMakesNewRoot ==
    [][(/\ last'.op = "Insert"
        /\ next_page_id + 1 <= pool_size
        /\ root_page_id_ # INVALID_PAGE_ID
        /\ IsLeafPage(pages[root_page_id_])
        /\ ~LeafLookup(pages[root_page_id_], last'.key).found
        /\ LET page1 == LeafInsert(pages[root_page_id_], last'.key, last'.val)
           IN  page1.size >= page1.max) =>
          /\ ~crashed'
          /\ LET old == root_page_id_
                 NR == root_page_id_'
                 fresh == next_page_id..(next_page_id' - 1)
             IN  /\ NR \in fresh
                 /\ pages'[NR].type = INTERNAL_PAGE
                 /\ pages'[NR].size = 2
                 /\ ValueAt(pages'[NR], 0) = old
                 /\ \E N \in fresh \ {NR} :
                       /\ IsLeafPage(pages'[N])
                       /\ pages'[N].pid = N
                       /\ ValueAt(pages'[NR], 1) = N
                       /\ InternalKeyAt(pages'[NR], 1) = LeafKeyAt(pages'[N], 0)
                       /\ pages'[N].parent = NR
                 /\ pages'[old].parent = NR]_vars

\* ------------------------------------------- InsertIntoParent after a split
\* BPlusTree::InsertIntoParent on its own, called as InsertToLeaf calls it
\* after the split of leaf page 3 into pages 3 and 4.  Page 2 is the parent P
\* of the two leaves, with every size below max_size; P is the root, or the
\* only child of the root page 1.
ParentPageIds == INVALID_PAGE_ID..(MaxPages + 2)

\* A child id of P that names a page outside this part of the tree.
OtherChild(i) == MaxPages + 3 + i

\* An internal page with children cs and, from slot 1 on, keys ks.
InternalOver(fill, page_id, parent_id, ks, cs) ==
    [InternalInit(RawPage(fill), page_id, parent_id)
       EXCEPT !.size = Len(cs),
              !.arr = [j \in 1..Cap |->
                         IF j = 1 THEN [k |-> fill, v |-> cs[1]]
                         ELSE IF j <= Len(cs) THEN [k |-> ks[j - 1], v |-> cs[j]]
                         ELSE @[j]]]

\* A leaf whose first key is key.
LeafWith(fill, page_id, parent_id, key) ==
    LeafInsert(LeafInit(RawPage(fill), page_id, parent_id), key, key)

\* seq without its element at position at.
DropAt(seq, at) == [i \in 1..(Len(seq) - 1) |-> IF i < at THEN seq[i] ELSE seq[i + 1]]

InitParent ==
    /\ \E S \in SUBSET Keys : \E fill \in RawBytes : \E isRoot \in BOOLEAN :
          /\ Cardinality(S) >= 1
          /\ Cardinality(S) < InternalMaxSize
          /\ \E j \in 1..Cardinality(S) :
                \* the separators of P once the new key is in: slot j of P
                \* will hold (keys[j], page 4), behind page 3 in slot j - 1
                LET keys == SortedSeq(S)
                    n == Len(keys)
                    cs == [i \in 1..n |-> IF i = j THEN 3 ELSE OtherChild(i)]
                    P == InternalOver(fill, 2, IF isRoot THEN INVALID_PAGE_ID ELSE 1,
                                      DropAt(keys, j), cs)
                IN  pages = [id \in ParentPageIds |->
                               IF id = 1 /\ ~isRoot
                               THEN InternalOver(fill, 1, INVALID_PAGE_ID, <<>>, <<2>>)
                               ELSE IF id = 2 THEN P
                               ELSE IF id = 3 THEN LeafWith(fill, 3, 2, 0)
                               ELSE IF id = 4 THEN LeafWith(fill, 4, 2, keys[j])
                               ELSE RawPage(fill)]
          /\ root_page_id_ = IF isRoot THEN 2 ELSE 1
    /\ wild = "null"
    /\ pool_size = MaxPages + 2
    /\ thr = NoThreads
    /\ next_page_id = 5
    /\ header = {}
    /\ crashed = FALSE
    /\ last = NoCall
    /\ run = "other"
    /\ runMap = NoMap
    /\ allTrue = TRUE

\* InsertIntoParent(page 3, first key of page 4, page 4), the call at the end
\* of InsertToLeaf.
InsertIntoParentStep ==
    /\ last.op = "none"
    /\ LET m == InsertIntoParent(Mach, 3, LeafKeyAt(pages[4], 0), 4)
       IN  /\ crashed' = ~m.ok
           /\ IF m.ok
              THEN /\ pages' = m.pages
                   /\ root_page_id_' = m.root
                   /\ next_page_id' = m.next
              ELSE UNCHANGED <<pages, root_page_id_, next_page_id>>
    /\ last' = [NoCall EXCEPT !.op = "InsertIntoParent", !.key = LeafKeyAt(pages[4], 0)]
    /\ UNCHANGED <<wild, pool_size, thr, header, run, runMap, allTrue>>

NextParent == InsertIntoParentStep

SpecParent == InitParent /\ [][NextParent]_vars

\* C22: when the insertion into the parent P of a non-root node makes P reach
\* max_size, P is split: a new internal page P' is allocated and initialised
\* with its own page id and P's parent id, the upper half of P's slots moves
\* to P' in order, and the pair inserted one level up by the recursive
\* InsertIntoParent(P, key, P') is (key of the first transferred slot, P').
C22_InternalSplitPromotesFirstMovedKey ==
    [][(/\ last'.op = "InsertIntoParent"
        /\ pages[2].size + 1 >= pages[2].max) =>
          LET full == InsertNodeAfter(pages[2], 3, last'.key, 4)
              new == next_page_id
              kept == pages'[2].size
          IN  /\ ~crashed'
              /\ next_page_id' > new
              /\ pages'[new].type = INTERNAL_PAGE
              /\ pages'[new].pid = new
              /\ pages'[new].parent = pages[2].parent
              /\ kept >= 1
              /\ kept < full.size
              /\ EntrySeq(pages'[2]) = SubSeq(EntrySeq(full), 1, kept)
              /\ EntrySeq(pages'[new]) = SubSeq(EntrySeq(full), kept + 1, full.size)
              /\ pages[2].parent = 1 =>
                    /\ pages'[1].size = 2
                    /\ Slot(pages'[1], 0).v = 2
                    /\ Slot(pages'[1], 1) = [k |-> Slot(full, kept).k, v |-> new]]_vars

\* ------------------------------------------- further leaf page operations
\* BPlusTreeLeafPage::KeyIndex: the first slot whose key is >= key, -1 if none.
LeafKeyIndex(p, key) ==
    LET hits == {i \in 0..(p.size - 1) : Cmp(Slot(p, i).k, key) >= 0}
    IN  IF hits = {} THEN -1 ELSE SetMin(hits)

\* A CopyAllFrom that writes the items from slot 0 on.
LeafCopyAllFrom_fromZero(r, items, size) ==
    [r EXCEPT !.size = r.size + size,
              !.arr = [j \in 1..Cap |-> IF j - 1 < size THEN items[j] ELSE r.arr[j]]]

\* BPlusTreeLeafPage::CopyAllFrom(items, size): the items go behind the
\* recipient's entries; IncreaseSize(size) adds size to the size field.
LeafCopyAllFrom(r, items, size) ==
    [r EXCEPT !.size = r.size + size,
              !.arr = [j \in 1..Cap |->
                         IF j - 1 >= r.size /\ j - 1 < r.size + size
                         THEN items[j - r.size]
                         ELSE r.arr[j]]]

\* BPlusTreeLeafPage::MoveAllTo: <<this page, recipient>> afterwards.
LeafMoveAllTo(p, r) ==
    <<SetNextPageId([p EXCEPT !.size = 0], INVALID_PAGE_ID),
      LeafCopyAllFrom(r, p.arr, p.size)>>

\* BPlusTreeInternalPage::SetKeyAt
InternalSetKeyAt(p, index, key) == [p EXCEPT !.arr[index + 1].k = key]

\* BPlusTreeLeafPage::CopyLastFrom(item)
LeafCopyLastFrom(r, item) ==
    [SetSlot(r, r.size, item) EXCEPT !.size = r.size + 1]

\* BPlusTreeLeafPage::MoveFirstToEndOf: <<this page, recipient, parent>>
\* afterwards.  The key handed to SetKeyAt is read from array[1] before the
\* entries are shifted.
LeafMoveFirstToEndOf(p, r, parent) ==
    <<[p EXCEPT !.size = p.size - 1,
                !.arr = [j \in 1..Cap |->
                           IF j < p.size THEN p.arr[j + 1] ELSE p.arr[j]]],
      LeafCopyLastFrom(r, Slot(p, 0)),
      InternalSetKeyAt(parent, ValueIndex(parent, p.pid), Slot(p, 1).k)>>

\* BPlusTreeLeafPage::CopyFirstFrom(item, parentIndex): <<this page, parent>>
\* afterwards.  The entries move one slot up and the item goes to slot 0; the
\* size is left as it was, parentIndex is not used, and the key handed to
\* SetKeyAt is that of array[1].
LeafCopyFirstFrom(r, item, parentIndex, parent) ==
    LET r1 == [r EXCEPT !.arr = [j \in 1..Cap |->
                                   IF j = 1 THEN item
                                   ELSE IF j - 1 <= r.size THEN r.arr[j - 1]
                                   ELSE r.arr[j]]]
    IN  <<r1, InternalSetKeyAt(parent, ValueIndex(parent, r.pid), Slot(r1, 1).k)>>

\* BPlusTreeLeafPage::MoveLastToFrontOf: <<this page, recipient, parent>>
\* afterwards.  The item handed over is array[0].
LeafMoveLastToFrontOf(p, r, parentIndex, parent) ==
    LET c == LeafCopyFirstFrom(r, Slot(p, 0), parentIndex, parent)
    IN  <<[p EXCEPT !.size = p.size - 1], c[1], c[2]>>

\* --------------------------------------- further internal page operations
\* A Lookup that sends a key equal to a separator to the child on its left.
InternalLookup_equalLeft(p, key) ==
    LET less == {i \in 1..(p.size - 1) : Cmp(key, InternalKeyAt(p, i)) <= 0}
    IN  IF less = {} THEN ValueAt(p, p.size - 1) ELSE ValueAt(p, SetMin(less) - 1)

\* BPlusTreeInternalPage::Lookup: the scan stops at the first slot i >= 1
\* whose key is not below the argument.
InternalLookup(p, key) ==
    LET stops == {i \in 1..(p.size - 1) : Cmp(key, InternalKeyAt(p, i)) <= 0}
        i == IF stops # {} THEN SetMin(stops)
             ELSE IF p.size > 1 THEN p.size ELSE 1
    IN  IF i = p.size THEN ValueAt(p, p.size - 1)
        ELSE IF Cmp(key, InternalKeyAt(p, i)) < 0 THEN ValueAt(p, i - 1)
        ELSE ValueAt(p, i)

\* --------------------------------------------- the page operations alone
\* The operations of a leaf page and of an internal page, each applied once
\* to pages as a tree holds them.  Either pages 1 and 2 are two sibling
\* leaves (1 on the left) under the internal page 3, or page 4 is an internal
\* page with at least two children.

\* A leaf holding the keys of ks in this order, RID = key.
LeafHolding(fill, page_id, parent_id, ks) ==
    [LeafInit(RawPage(fill), page_id, parent_id)
       EXCEPT !.size = Len(ks),
              !.arr = [j \in 1..Cap |->
                         IF j <= Len(ks) THEN [k |-> ks[j], v |-> ks[j]] ELSE @[j]]]

\* The child ids of an internal page of n slots: distinct, in a rotated order.
RotatedChildren(n, rot) == [i \in 1..n |-> OtherChild((i + rot) % n)]

\* The child id InsertNodeAfter is given for the new node.
NewChild == OtherChild(Cap)

InitOps ==
    /\ \E fill \in RawBytes :
          \/ \E S \in SUBSET Keys : \E cut \in 0..Cardinality(S) :
                LET all == SortedSeq(S)
                    left == SubSeq(all, 1, cut)
                    right == SubSeq(all, cut + 1, Len(all))
                    sep == IF right # <<>> THEN right[1]
                           ELSE IF left # <<>> THEN left[Len(left)] + 1
                           ELSE 1
                IN  /\ Cardinality(S) < Cap
                    /\ pages = [id \in PageIds |->
                                  IF id = 1 THEN LeafHolding(fill, 1, 3, left)
                                  ELSE IF id = 2 THEN LeafHolding(fill, 2, 3, right)
                                  ELSE IF id = 3
                                  THEN InternalOver(fill, 3, INVALID_PAGE_ID,
                                                    <<sep>>, <<1, 2>>)
                                  ELSE RawPage(fill)]
                    /\ root_page_id_ = 3
          \/ \E S \in SUBSET Keys : \E rot \in 0..Cardinality(S) :
                /\ Cardinality(S) >= 1
                /\ Cardinality(S) < InternalMaxSize
                /\ pages = [id \in PageIds |->
                              IF id = 4
                              THEN InternalOver(fill, 4, INVALID_PAGE_ID, SortedSeq(S),
                                                RotatedChildren(Cardinality(S) + 1, rot))
                              ELSE RawPage(fill)]
                /\ root_page_id_ = 4
    /\ wild = "null"
    /\ pool_size = MaxPages
    /\ thr = NoThreads
    /\ next_page_id = MaxPages + 1
    /\ header = {}
    /\ crashed = FALSE
    /\ last = NoCall
    /\ run = "other"
    /\ runMap = NoMap
    /\ allTrue = TRUE

LeavesLoaded == IsLeafPage(pages[1]) /\ last.op = "none"
InternalLoaded == pages[4].type = INTERNAL_PAGE /\ last.op = "none"

\* KeyIndex(key) on the left leaf.
KeyIndexStep(key) ==
    /\ LeavesLoaded
    /\ last' = [NoCall EXCEPT !.op = "KeyIndex", !.key = key,
                              !.val = LeafKeyIndex(pages[1], key)]
    /\ UNCHANGED <<pages, root_page_id_, next_page_id, wild, pool_size, thr, header,
                   crashed, run, runMap, allTrue>>

\* RemoveAndDeleteRecord(key) on the left leaf.
RemoveAndDeleteRecordStep(key) ==
    /\ LeavesLoaded
    /\ LET p == LeafRemoveAndDeleteRecord(pages[1], key)
       IN  /\ pages' = [pages EXCEPT ![1] = p]
           /\ last' = [NoCall EXCEPT !.op = "RemoveAndDeleteRecord", !.key = key,
                                     !.val = p.size]
    /\ UNCHANGED <<root_page_id_, next_page_id, wild, pool_size, thr, header,
                   crashed, run, runMap, allTrue>>

\* MoveAllTo: the right leaf is merged into the left one.
MoveAllToStep ==
    /\ LeavesLoaded
    /\ LET r == LeafMoveAllTo(pages[2], pages[1])
       IN  pages' = [pages EXCEPT ![2] = r[1], ![1] = r[2]]
    /\ last' = [NoCall EXCEPT !.op = "MoveAllTo"]
    /\ UNCHANGED <<root_page_id_, next_page_id, wild, pool_size, thr, header,
                   crashed, run, runMap, allTrue>>

\* MoveFirstToEndOf: the right leaf, with an entry to spare, gives its first
\* entry to the left one.
MoveFirstToEndOfStep ==
    /\ LeavesLoaded
    /\ pages[2].size >= 2
    /\ LET r == LeafMoveFirstToEndOf(pages[2], pages[1], pages[3])
       IN  pages' = [pages EXCEPT ![2] = r[1], ![1] = r[2], ![3] = r[3]]
    /\ last' = [NoCall EXCEPT !.op = "MoveFirstToEndOf"]
    /\ UNCHANGED <<root_page_id_, next_page_id, wild, pool_size, thr, header,
                   crashed, run, runMap, allTrue>>

\* MoveLastToFrontOf: the left leaf, with an entry to spare, gives its last
\* entry to the right one, whose slot in the parent is slot 1.
MoveLastToFrontOfStep ==
    /\ LeavesLoaded
    /\ pages[1].size >= 2
    /\ LET r == LeafMoveLastToFrontOf(pages[1], pages[2], 1, pages[3])
       IN  pages' = [pages EXCEPT ![1] = r[1], ![2] = r[2], ![3] = r[3]]
    /\ last' = [NoCall EXCEPT !.op = "MoveLastToFrontOf"]
    /\ UNCHANGED <<root_page_id_, next_page_id, wild, pool_size, thr, header,
                   crashed, run, runMap, allTrue>>

\* Lookup(key) on the internal page.
LookupStep(key) ==
    /\ InternalLoaded
    /\ last' = [NoCall EXCEPT !.op = "Lookup", !.key = key,
                              !.val = InternalLookup(pages[4], key)]
    /\ UNCHANGED <<pages, root_page_id_, next_page_id, wild, pool_size, thr, header,
                   crashed, run, runMap, allTrue>>

\* InsertNodeAfter(old_value, new_key, NewChild) on the internal page.
InsertNodeAfterStep(old_value, new_key) ==
    /\ InternalLoaded
    /\ InsertNodeAfterInArray(pages[4])
    /\ LET p == InsertNodeAfter(pages[4], old_value, new_key, NewChild)
       IN  /\ pages' = [pages EXCEPT ![4] = p]
           /\ last' = [NoCall EXCEPT !.op = "InsertNodeAfter", !.key = new_key,
                                     !.val = p.size, !.result = <<old_value>>]
    /\ UNCHANGED <<root_page_id_, next_page_id, wild, pool_size, thr, header,
                   crashed, run, runMap, allTrue>>

NextOps ==
    \/ \E key \in Keys : KeyIndexStep(key)
    \/ \E key \in Keys : RemoveAndDeleteRecordStep(key)
    \/ MoveAllToStep
    \/ MoveFirstToEndOfStep
    \/ MoveLastToFrontOfStep
    \/ \E key \in Keys : LookupStep(key)
    \/ \E i \in 0..InternalMaxSize : \E key \in Keys :
          InsertNodeAfterStep(OtherChild(i), key)

SpecOps == InitOps /\ [][NextOps]_vars

\* C25: InsertNodeAfter(oldChild, newKey, newChild) on an internal node where
\* oldChild is the value at slot j places (newKey, newChild) at slot j+1,
\* leaves slots 0..j unchanged, moves each former slot j+1..size-1 one
\* position to the right in the same order, increases size by exactly 1 and
\* returns the new size.
C25_InsertNodeAfterPlacesPair ==
    [][(/\ last'.op = "InsertNodeAfter"
        /\ \E j \in 0..(pages[4].size - 1) : ValueAt(pages[4], j) = last'.result[1]) =>
          LET p == pages[4]
              q == pages'[4]
              j == CHOOSE i \in 0..(p.size - 1) : ValueAt(p, i) = last'.result[1]
          IN  /\ Slot(q, j + 1) = [k |-> last'.key, v |-> NewChild]
              /\ \A i \in 0..j : Slot(q, i) = Slot(p, i)
              /\ \A i \in (j + 1)..(p.size - 1) : Slot(q, i + 1) = Slot(p, i)
              /\ q.size = p.size + 1
              /\ last'.val = q.size]_vars

\* C25 happens: the pair was inserted behind a child that was not the last
\* one, so a slot had to move.
C25_Witness ==
    /\ last.op = "InsertNodeAfter"
    /\ \E j \in 0..(pages[4].size - 3) :
          /\ ValueAt(pages[4], j) = last.result[1]
          /\ ValueAt(pages[4], j + 1) = NewChild
          /\ InternalKeyAt(pages[4], j + 1) = last.key

\* The child slot the routing rule gives for key in internal page p: the
\* smallest i in [1, size) with key < key_i gives slot i - 1, otherwise the
\* last slot.
RouteSlot(p, key) ==
    LET above == {i \in 1..(p.size - 1) : key < InternalKeyAt(p, i)}
    IN  IF above # {} THEN SetMin(above) - 1 ELSE p.size - 1

\* C26: for every internal node with size >= 2 and strictly ascending keys in
\* slots 1..size-1 and for every key, Lookup(key) returns the child chosen by
\* the routing rule; in particular a key equal to the separator at slot i is
\* routed to the child at slot i.
C26_LookupFollowsRouting ==
    (/\ last.op = "Lookup"
     /\ pages[4].size >= 2
     /\ \A i, j \in 1..(pages[4].size - 1) :
           i < j => InternalKeyAt(pages[4], i) < InternalKeyAt(pages[4], j)) =>
        /\ last.val = ValueAt(pages[4], RouteSlot(pages[4], last.key))
        /\ \A i \in 1..(pages[4].size - 1) :
              last.key = InternalKeyAt(pages[4], i) => last.val = ValueAt(pages[4], i)

\* C26 happens: Lookup was called with a key equal to a separator that is not
\* the last one.
C26_Witness ==
    /\ last.op = "Lookup"
    /\ pages[4].size >= 3
    /\ last.key = InternalKeyAt(pages[4], 1)
    /\ last.val = ValueAt(pages[4], 1)

\* C27: leaf KeyIndex(key) returns the smallest slot i with key_i >= key, and
\* returns size (the one-past-the-end slot) when every key in the leaf is
\* smaller than the argument or the leaf is empty.
C27_KeyIndexFirstNotBelow ==
    (last.op = "KeyIndex") =>
        LET p == pages[1]
            notBelow == {i \in 0..(p.size - 1) : LeafKeyAt(p, i) >= last.key}
        IN  last.val = IF notBelow # {} THEN SetMin(notBelow) ELSE p.size

\* C28: leaf RemoveAndDeleteRecord(key): if the key is at slot i, the
\* remaining entries keep their relative order in slots [0, size-1) with no
\* gap, size decreases by exactly 1 and the new size is returned; if the key
\* is absent the page is unchanged and the unchanged size is returned.
C28_RemoveAndDeleteRecordCompacts ==
    [][(last'.op = "RemoveAndDeleteRecord") =>
          LET p == pages[1]
              q == pages'[1]
              at == {i \in 0..(p.size - 1) : LeafKeyAt(p, i) = last'.key}
          IN  /\ last'.val = q.size
              /\ at = {} => q = p
              /\ at # {} =>
                    /\ q.size = p.size - 1
                    /\ EntrySeq(q) = DropAt(EntrySeq(p), SetMin(at) + 1)]_vars

\* C28 happens: a key that was not in the last slot was removed from a leaf
\* of at least three entries.
C28_Witness ==
    /\ last.op = "RemoveAndDeleteRecord"
    /\ pages[1].size >= 2
    /\ last.val = pages[1].size
    /\ last.key \notin LeafKeys(pages[1])
    /\ LeafKeyAt(pages[1], 0) < last.key
    /\ last.key < LeafKeyAt(pages[1], pages[1].size - 1)

\* The (key, RID) pairs a leaf holds and how often it holds pair e.
HeldPairs(p) == {p.arr[i] : i \in 1..p.size}
PairCount(p, e) == Cardinality({i \in 1..p.size : p.arr[i] = e})

\* C29: leaf redistribution moves exactly one entry between siblings and
\* loses none: MoveFirstToEndOf moves the source's first entry to the
\* recipient's tail, MoveLastToFrontOf moves the source's last entry to the
\* recipient's front; in both cases source.size decreases by 1, recipient.size
\* increases by 1, the multiset of (key, RID) pairs held by the two leaves
\* together is unchanged, and the parent's separator for the right-hand leaf
\* of the pair becomes that leaf's new first key.
C29_RedistributionMovesOneEntry ==
    [][/\ (last'.op = "MoveFirstToEndOf") =>
             /\ pages'[2].size = pages[2].size - 1
             /\ pages'[1].size = pages[1].size + 1
             /\ EntrySeq(pages'[1]) = Append(EntrySeq(pages[1]), Slot(pages[2], 0))
             /\ EntrySeq(pages'[2]) = Tail(EntrySeq(pages[2]))
       /\ (last'.op = "MoveLastToFrontOf") =>
             /\ pages'[1].size = pages[1].size - 1
             /\ pages'[2].size = pages[2].size + 1
             /\ EntrySeq(pages'[2]) =
                   <<Slot(pages[1], pages[1].size - 1)>> \o EntrySeq(pages[2])
             /\ EntrySeq(pages'[1]) = SubSeq(EntrySeq(pages[1]), 1, pages[1].size - 1)
       /\ (last'.op \in {"MoveFirstToEndOf", "MoveLastToFrontOf"}) =>
             /\ \A e \in HeldPairs(pages[1]) \cup HeldPairs(pages[2])
                          \cup HeldPairs(pages'[1]) \cup HeldPairs(pages'[2]) :
                   PairCount(pages'[1], e) + PairCount(pages'[2], e)
                      = PairCount(pages[1], e) + PairCount(pages[2], e)
             /\ InternalKeyAt(pages'[3], 1) = LeafKeyAt(pages'[2], 0)]_vars

\* C30: leaf MoveAllTo(recipient) leaves the recipient holding its previous
\* entries followed by all of the source's entries in their original order
\* (recipient.size = old recipient.size + old source.size), and leaves the
\* source with size 0.
C30_MoveAllToAppends ==
    [][(last'.op = "MoveAllTo") =>
          /\ EntrySeq(pages'[1]) = EntrySeq(pages[1]) \o EntrySeq(pages[2])
          /\ pages'[1].size = pages[1].size + pages[2].size
          /\ pages'[2].size = 0]_vars

\* C30 happens: a leaf of at least two entries was merged into a leaf that
\* held at least one, and is empty now.
C30_Witness ==
    /\ last.op = "MoveAllTo"
    /\ pages[2].size = 0
    /\ pages[1].size >= 3
    /\ LeafKeyAt(pages[2], 1) = LeafKeyAt(pages[1], pages[1].size - 1)
    /\ LeafKeyAt(pages[2], 0) > LeafKeyAt(pages[1], 0)

\* ------------------------------------------------- removal from a two-level
\* tree
\* BPlusTree::CoalesceOrRedistribute(node): [m, ret]; the body is
\* `return false;`.
CoalesceOrRedistribute(m, node) == [m |-> m, ret |-> FALSE]

\* Remove and CoalesceOrRedistribute on a tree of two sibling leaves, pages 1
\* (left) and 2 (right), under the internal root page 3; each leaf holds
\* between one entry and max_size - 1 entries.
InitRemove ==
    /\ \E fill \in RawBytes : \E S \in SUBSET PageKeys : \E cut \in 1..Cap :
          LET all == SortedSeq(S)
              left == SubSeq(all, 1, cut)
              right == SubSeq(all, cut + 1, Len(all))
          IN  /\ cut < Cardinality(S)
              /\ Len(left) < LeafMaxSize
              /\ Len(right) < LeafMaxSize
              /\ pages = [id \in PageIds |->
                            IF id = 1 THEN LeafHolding(fill, 1, 3, left)
                            ELSE IF id = 2 THEN LeafHolding(fill, 2, 3, right)
                            ELSE IF id = 3
                            THEN InternalOver(fill, 3, INVALID_PAGE_ID,
                                              <<right[1]>>, <<1, 2>>)
                            ELSE RawPage(fill)]
    /\ root_page_id_ = 3
    /\ wild = "null"
    /\ pool_size = MaxPages
    /\ thr = NoThreads
    /\ next_page_id = MaxPages + 1
    /\ header = {}
    /\ crashed = FALSE
    /\ last = NoCall
    /\ run = "other"
    /\ runMap = NoMap
    /\ allTrue = TRUE

\* CoalesceOrRedistribute on leaf page node.
CoalesceOrRedistributeStep(node) ==
    /\ ~crashed
    /\ LET r == CoalesceOrRedistribute(Mach, node)
       IN  /\ pages' = r.m.pages
           /\ root_page_id_' = r.m.root
           /\ next_page_id' = r.m.next
           /\ last' = [NoCall EXCEPT !.op = "CoalesceOrRedistribute", !.key = node,
                                     !.ret = r.ret]
    /\ UNCHANGED <<wild, pool_size, thr, header, crashed, run, runMap, allTrue>>

NextRemove ==
    \/ \E key \in PageKeys : Remove(key)
    \/ \E node \in {1, 2} : CoalesceOrRedistributeStep(node)

SpecRemove == InitRemove /\ [][NextRemove]_vars

\* Minimum occupancy of a non-root node.
MinSize(p) == CeilHalf(p.max)

\* The ordering, occupancy and parent-link invariants of the pages reachable
\* from the root of m.
TreeInvariants(m) ==
    \A id \in TreeNodes(m) :
       LET p == m.pages[id]
       IN  /\ p.pid = id
           /\ id # m.root => p.size >= MinSize(p)
           /\ IF IsLeafPage(p)
              THEN \A i, j \in 0..(p.size - 1) : i < j => LeafKeyAt(p, i) < LeafKeyAt(p, j)
              ELSE /\ \A i \in 0..(p.size - 1) : m.pages[ValueAt(p, i)].parent = id
                   /\ \A i \in 1..(p.size - 1) :
                         /\ \A k \in SubtreeKeys(m, ValueAt(p, i - 1)) :
                               k < InternalKeyAt(p, i)
                         /\ \A k \in SubtreeKeys(m, ValueAt(p, i)) :
                               k >= InternalKeyAt(p, i)

\* C31: when a Remove leaves a non-root node N below minimum occupancy, N and
\* its chosen sibling S (the right sibling if N is at index 0 of the parent,
\* otherwise the left one) are coalesced when N.size + S.size < max_size and
\* otherwise, also when the sum equals max_size, exactly one entry is
\* redistributed from S to N; after either outcome the tree again satisfies
\* the ordering, occupancy and parent-link invariants.  Here N is a leaf that
\* holds the removed key and exactly the minimum number of entries.
C31_UnderflowCoalescesOrRedistributes ==
    [][\A N \in {1, 2} :
          (/\ last'.op = "Remove"
           /\ last'.key \in LeafKeys(pages[N])
           /\ pages[N].size = MinSize(pages[N])) =>
             LET S == 3 - N
                 nsize == pages[N].size - 1
                 before == SubtreeKeys(Mach, root_page_id_)
                 leaves == {id \in TreeNodes(Mach') : IsLeafPage(pages'[id])}
             IN  /\ ~crashed'
                 /\ SubtreeKeys(Mach', root_page_id_') = before \ {last'.key}
                 /\ IF nsize + pages[S].size < pages[N].max
                    THEN \* coalesced: one leaf holds what the two held
                         /\ Cardinality(leaves) = 1
                         /\ \A id \in leaves :
                               pages'[id].size = nsize + pages[S].size
                    ELSE \* redistributed: one entry went from S to N
                         /\ leaves = {1, 2}
                         /\ pages'[N].size = nsize + 1
                         /\ pages'[S].size = pages[S].size - 1
                 /\ TreeInvariants(Mach')]_vars

====
